---- MODULE Spec2Model ----
(***************************************************************************)
(* State-machine model of src/src/main.rs: the POST /api handler           *)
(* (handle_post), the renderer and extractor (get_text_headless), the      *)
(* text preprocessor (get_summary_private) and the summarization client    *)
(* (custom_gpt, chat).                                                     *)
(*                                                                         *)
(* Text is a sequence of one-character strings.  A URL string is a         *)
(* sequence of lexical pieces: a word, ":", "/" or " ".  A rendered        *)
(* document is the sequence of its pages' texts.                           *)
(***************************************************************************)
EXTENDS Integers, Sequences, FiniteSets, TLC

VARIABLES
    pc,          \* per request: the next step of handle_post
    url,         \* per request: data.url
    trace,       \* per request: the calls made so far, in order (history)
    fails,       \* per request: the failure outcomes met so far (history)
    tab,         \* per request: navigation state of the request's tab
    pdf,         \* per request: pdf_as_vec, as the sequence of page texts
    idx,         \* per request: position of the pages() iterator
    texts,       \* per request: page texts mapped so far (the Vec<String>)
    text,        \* per request: Ok(text) of get_text_headless
    feed_texts,  \* per request: feed_texts after truncate
    news_body,   \* per request: news_body
    message_obj, \* per request: the messages array custom_gpt hands to chat
    writer,      \* per request: the provider's response body
    response,    \* per request: the HTTP response of handle_post
    env,         \* process environment holds OPENAI_API_TOKEN
    dotenvFile   \* the .env file holds OPENAI_API_TOKEN

vars == <<pc, url, trace, fails, tab, pdf, idx, texts, text, feed_texts,
          news_body, message_obj, writer, response, env, dotenvFile>>

(***************************************************************************)
(* Bounds of the model, and the page count the print options fix.          *)
(***************************************************************************)
\* Token budget of feed_texts.truncate (3000 in the code), scaled down.
MaxTokens == 2
\* Longest page text, in characters, drawn by InitText.
MaxTextLen == 3
\* page_ranges: Some("1-2"): the printed document has at most two pages.
MaxPages == 2

Requests == {"r1", "r2"}

Chars == {"a", "b", " ", "\n"}

\* u8::is_ascii_whitespace: space, tab, line feed, form feed, carriage return
IsAsciiWhitespace(c) == c \in {" ", "\t", "\n", "\r"}

(***************************************************************************)
(* Url::from_str of handle_post, for a scheme word of "http", "https"      *)
(* (special schemes) or any other word (non-special scheme).               *)
(***************************************************************************)
SpecialSchemes == {"http", "https"}

IsWord(p) == p \notin {":", "/", " "}

RECURSIVE TrimLeft(_)
TrimLeft(s) ==
    IF s # <<>> /\ Head(s) = " " THEN TrimLeft(Tail(s)) ELSE s

RECURSIVE TrimRight(_)
TrimRight(s) ==
    IF s # <<>> /\ s[Len(s)] = " " THEN TrimRight(SubSeq(s, 1, Len(s) - 1)) ELSE s

RECURSIVE SkipSlashes(_)
SkipSlashes(s) ==
    IF s # <<>> /\ Head(s) = "/" THEN SkipSlashes(Tail(s)) ELSE s

\* the pieces of s before its first "/"
RECURSIVE UpToSlash(_)
UpToSlash(s) ==
    IF s = <<>> \/ Head(s) = "/" THEN <<>> ELSE <<Head(s)>> \o UpToSlash(Tail(s))

HostOk(h) == \A i \in 1..Len(h) : h[i] # " "

UrlFromStr(input) ==
    LET s == TrimRight(TrimLeft(input))
    IN  IF Len(s) < 2 \/ ~IsWord(s[1]) \/ s[2] # ":"
        THEN [ok |-> FALSE, host |-> <<>>]            \* RelativeUrlWithoutBase
        ELSE LET rest == SubSeq(s, 3, Len(s))
             IN  IF s[1] \in SpecialSchemes
                 THEN LET h == UpToSlash(SkipSlashes(rest))
                      IN  IF h = <<>> \/ ~HostOk(h)
                          THEN [ok |-> FALSE, host |-> <<>>]   \* EmptyHost, invalid host
                          ELSE [ok |-> TRUE, host |-> h]
                 ELSE IF Len(rest) >= 2 /\ rest[1] = "/" /\ rest[2] = "/"
                      THEN LET h == UpToSlash(SubSeq(rest, 3, Len(rest)))
                           IN  IF ~HostOk(h)
                               THEN [ok |-> FALSE, host |-> <<>>]
                               ELSE [ok |-> TRUE, host |-> h]
                      ELSE [ok |-> TRUE, host |-> <<>>]        \* path-only or opaque

(***************************************************************************)
(* The request bodies the model sends, and the page each URL serves.       *)
(***************************************************************************)
UrlNotAUrl    == <<"not", " ", "a", " ", "url">>
UrlNoScheme   == <<"/", "/", "example.com">>
UrlEmptyHost  == <<"https", ":", "/", "/">>
UrlExample    == <<"https", ":", "/", "/", "example.com", "/", "a">>
UrlOther      == <<"http", ":", "/", "/", "other.example">>
UrlData       == <<"data", ":", "text">>

Urls == {UrlNotAUrl, UrlNoScheme, UrlEmptyHost, UrlExample, UrlOther, UrlData}

NoUrl == <<>>
NoDoc == <<>>
BlankDoc == << <<>> >>

\* what the tab shows once navigation to u has completed
Web(u) ==
    IF u = UrlExample THEN << <<"a", " ", "b">>, <<"b", "\n", "a", " ", "b">> >>
    ELSE IF u = UrlOther THEN << <<" ", "b", "\n", "\n", "a">> >>
    ELSE IF u = UrlData THEN << <<"a">>, <<>> >>
    ELSE BlankDoc

NoResponse == [status |-> 0, body |-> ""]

ParseFailure   == "parse target url failure"
TextFailure    == "failed to get text from webpage"
SummaryFailure == "failed to create summary"

(***************************************************************************)
(* Pure text functions.                                                    *)
(***************************************************************************)
\* slice::split(pred): the pieces between separators, empty pieces included
RECURSIVE SplitOn(_, _, _)
SplitOn(s, cur, acc) ==
    IF s = <<>> THEN Append(acc, cur)
    ELSE IF IsAsciiWhitespace(Head(s))
         THEN SplitOn(Tail(s), <<>>, Append(acc, cur))
         ELSE SplitOn(Tail(s), Append(cur, Head(s)), acc)

NonEmpty(piece) == piece # <<>>

\* str::split_ascii_whitespace: split on ASCII whitespace, drop empty pieces
split_ascii_whitespace(s) == SelectSeq(SplitOn(s, <<>>, <<>>), NonEmpty)

\* Vec::truncate(len): keeps the first len elements, no effect if shorter
truncate_drop_front(v, len) ==
    IF Len(v) > len THEN SubSeq(v, Len(v) - len + 1, Len(v)) ELSE v

truncate(v, len) ==
    IF Len(v) > len THEN SubSeq(v, 1, len) ELSE v

\* [String]::join(sep)
RECURSIVE join_reversed(_, _)
join_reversed(v, sep) ==
    IF v = <<>> THEN <<>>
    ELSE IF Len(v) = 1 THEN v[1]
    ELSE join_reversed(Tail(v), sep) \o sep \o v[1]

RECURSIVE join(_, _)
join(v, sep) ==
    IF v = <<>> THEN <<>>
    ELSE IF Len(v) = 1 THEN v[1]
    ELSE v[1] \o sep \o join(Tail(v), sep)

Space == <<" ">>

SysPrompt == "You're a new reporter AI."
PromptHead == "Given the news body text: "
PromptTail == ", which may include some irrelevant information, ..."

\* format!("Given the news body text: {news_body}, which may include ...")
user_prompt_of(body) == <<PromptHead>> \o body \o <<PromptTail>>

\* vec![system_prompt, user_prompt] of custom_gpt
messages_of(sys, usr) ==
    << [role |-> "system", content |-> <<sys>>], [role |-> "user", content |-> usr] >>

NoMessages == <<>>

(***************************************************************************)
(* The provider's possible response bodies.                                *)
(***************************************************************************)
\* the choices arrays the provider answers with: empty, one choice, two choices
ChoiceLists == {<<>>, <<"summary A">>, <<"summary B", "summary A">>}

NoBody == [json |-> FALSE, choices |-> <<"-">>]
\* a body that is not a ChatResponse (an error object, truncated JSON, ...)
Unparseable == [json |-> FALSE, choices |-> <<>>]

ProviderBodies == {Unparseable} \cup {[json |-> TRUE, choices |-> cs] : cs \in ChoiceLists}

(***************************************************************************)
(* handle_post, one action per call it makes.                              *)
(***************************************************************************)
Call(r, name) == trace' = [trace EXCEPT ![r] = Append(@, name)]

Failure(r, mode) == fails' = [fails EXCEPT ![r] = @ \cup {mode}]

Goto(r, label) == pc' = [pc EXCEPT ![r] = label]

\* Response::builder().status(StatusCode::OK).body(b) returned from handle_post
Respond(r, b) ==
    /\ response' = [response EXCEPT ![r] = [status |-> 200, body |-> b]]
    /\ pc' = [pc EXCEPT ![r] = "done"]

\* a panic unwinds out of handle_post: the request gets no response
Panic(r) ==
    /\ pc' = [pc EXCEPT ![r] = "panicked"]
    /\ UNCHANGED response

\* get_text_headless returns Err through `?`; handle_post answers TextFailure
TextErr(r, mode) ==
    /\ Failure(r, mode)
    /\ Respond(r, TextFailure)

\* chat returns Err through `?`, custom_gpt maps it to None
SummaryErr(r, mode) ==
    /\ Failure(r, mode)
    /\ Respond(r, SummaryFailure)

\* axum hands a POST /api body {"url": u} to a new run of handle_post
Receive(r) ==
    /\ pc[r] = "idle"
    /\ \E u \in Urls : url' = [url EXCEPT ![r] = u]
    /\ Goto(r, "validate")
    /\ UNCHANGED <<trace, fails, tab, pdf, idx, texts, text, feed_texts,
                   news_body, message_obj, writer, response, env, dotenvFile>>

\* the branch taken when the condition `if let Err(_)` is inverted
handle_post_validate_inverted(r) ==
    /\ pc[r] = "validate"
    /\ Call(r, "Url::from_str")
    /\ IF UrlFromStr(url[r]).ok
       THEN /\ Failure(r, "url")
            /\ Respond(r, ParseFailure)
       ELSE /\ Goto(r, "Browser::new")
            /\ UNCHANGED <<fails, response>>
    /\ UNCHANGED <<url, tab, pdf, idx, texts, text, feed_texts,
                   news_body, message_obj, writer, env, dotenvFile>>

\* if let Err(_) = Url::from_str(&data.url) { return "parse target url failure" }
handle_post_validate(r) ==
    /\ pc[r] = "validate"
    /\ Call(r, "Url::from_str")
    /\ IF ~UrlFromStr(url[r]).ok
       THEN /\ Failure(r, "url")
            /\ Respond(r, ParseFailure)
       ELSE /\ Goto(r, "Browser::new")
            /\ UNCHANGED <<fails, response>>
    /\ UNCHANGED <<url, tab, pdf, idx, texts, text, feed_texts,
                   news_body, message_obj, writer, env, dotenvFile>>

\* let browser = Browser::new(options)?;
Browser_new(r) ==
    /\ pc[r] = "Browser::new"
    /\ Call(r, "Browser::new")
    /\ \/ /\ Goto(r, "new_tab")
          /\ UNCHANGED <<fails, response>>
       \/ TextErr(r, "browser")
    /\ UNCHANGED <<url, tab, pdf, idx, texts, text, feed_texts,
                   news_body, message_obj, writer, env, dotenvFile>>

\* let tab = browser.new_tab()?;
new_tab(r) ==
    /\ pc[r] = "new_tab"
    /\ Call(r, "new_tab")
    /\ \/ /\ Goto(r, "navigate_to")
          /\ tab' = [tab EXCEPT ![r] = "blank"]
          /\ UNCHANGED <<fails, response>>
       \/ /\ TextErr(r, "tab")
          /\ UNCHANGED tab
    /\ UNCHANGED <<url, pdf, idx, texts, text, feed_texts,
                   news_body, message_obj, writer, env, dotenvFile>>

\* tab.navigate_to(url)?;
navigate_to(r) ==
    /\ pc[r] = "navigate_to"
    /\ Call(r, "navigate_to")
    /\ \/ /\ Goto(r, "wait_until_navigated")
          /\ tab' = [tab EXCEPT ![r] = "navigating"]
          /\ UNCHANGED <<fails, response>>
       \/ /\ TextErr(r, "navigate")
          /\ UNCHANGED tab
    /\ UNCHANGED <<url, pdf, idx, texts, text, feed_texts,
                   news_body, message_obj, writer, env, dotenvFile>>

\* tab.wait_until_navigated();   -- the Result is dropped, no `?`
wait_until_navigated(r) ==
    /\ pc[r] = "wait_until_navigated"
    /\ Call(r, "wait_until_navigated")
    /\ \/ /\ tab' = [tab EXCEPT ![r] = "loaded"]
          /\ UNCHANGED fails
       \/ /\ tab' = [tab EXCEPT ![r] = "unfinished"]
          /\ Failure(r, "wait")
    /\ Goto(r, "print_to_pdf")
    /\ UNCHANGED <<url, pdf, idx, texts, text, feed_texts,
                   news_body, message_obj, writer, response, env, dotenvFile>>

\* what print_to_pdf can capture from the tab of request r
Printable(r) ==
    IF tab[r] = "loaded" THEN {Web(url[r])} ELSE {Web(url[r]), BlankDoc}

\* a renderer that keeps the printed bytes in one buffer shared by all requests
print_to_pdf_shared(r) ==
    /\ pc[r] = "print_to_pdf"
    /\ Call(r, "print_to_pdf")
    /\ \/ /\ \E doc \in Printable(r) : pdf' = [q \in Requests |-> doc]
          /\ Goto(r, "bind_to_library")
          /\ UNCHANGED <<fails, response>>
       \/ /\ TextErr(r, "print")
          /\ UNCHANGED pdf
    /\ UNCHANGED <<url, tab, idx, texts, text, feed_texts,
                   news_body, message_obj, writer, env, dotenvFile>>

\* let pdf_data = tab.print_to_pdf(pdf_options)?; let pdf_as_vec = pdf_data.to_vec();
print_to_pdf(r) ==
    /\ pc[r] = "print_to_pdf"
    /\ Call(r, "print_to_pdf")
    /\ \/ /\ \E doc \in Printable(r) : pdf' = [pdf EXCEPT ![r] = doc]
          /\ Goto(r, "bind_to_library")
          /\ UNCHANGED <<fails, response>>
       \/ /\ TextErr(r, "print")
          /\ UNCHANGED pdf
    /\ UNCHANGED <<url, tab, idx, texts, text, feed_texts,
                   news_body, message_obj, writer, env, dotenvFile>>

\* Pdfium::bind_to_library(<path>).or_else(|_| Pdfium::bind_to_system_library())?
bind_to_library(r) ==
    /\ pc[r] = "bind_to_library"
    /\ Call(r, "bind_to_library")
    /\ \E atPath \in BOOLEAN, system \in BOOLEAN :
          IF atPath \/ system
          THEN /\ Goto(r, "load_pdf")
               /\ UNCHANGED <<fails, response>>
          ELSE TextErr(r, "library")
    /\ UNCHANGED <<url, tab, pdf, idx, texts, text, feed_texts,
                   news_body, message_obj, writer, env, dotenvFile>>

\* .load_pdf_from_byte_vec(pdf_as_vec, Some(""))?  then .pages().iter()
load_pdf_from_byte_vec(r) ==
    /\ pc[r] = "load_pdf"
    /\ Call(r, "load_pdf_from_byte_vec")
    /\ \/ /\ Goto(r, "pages")
          /\ idx' = [idx EXCEPT ![r] = 1]
          /\ texts' = [texts EXCEPT ![r] = <<>>]
          /\ UNCHANGED <<fails, response>>
       \/ /\ TextErr(r, "load")
          /\ UNCHANGED <<idx, texts>>
    /\ UNCHANGED <<url, tab, pdf, text, feed_texts,
                   news_body, message_obj, writer, env, dotenvFile>>

\* .map(|page| page.text().unwrap().all()), one page per step
page_text(r) ==
    /\ pc[r] = "pages"
    /\ idx[r] <= Len(pdf[r])
    /\ Call(r, "page.text")
    /\ \/ /\ texts' = [texts EXCEPT ![r] = Append(@, pdf[r][idx[r]])]
          /\ idx' = [idx EXCEPT ![r] = @ + 1]
          /\ UNCHANGED <<pc, fails, response>>
       \/ /\ Failure(r, "page")                 \* unwrap() of an Err panics
          /\ Panic(r)
          /\ UNCHANGED <<idx, texts>>
    /\ UNCHANGED <<url, tab, pdf, text, feed_texts,
                   news_body, message_obj, writer, env, dotenvFile>>

\* .collect::<Vec<String>>().join(" ");  Ok(text)
collect_join(r) ==
    /\ pc[r] = "pages"
    /\ idx[r] > Len(pdf[r])
    /\ Call(r, "join")
    /\ text' = [text EXCEPT ![r] = join(texts[r], Space)]
    /\ Goto(r, "get_summary_private")
    /\ UNCHANGED <<url, fails, tab, pdf, idx, texts, feed_texts,
                   news_body, message_obj, writer, response, env, dotenvFile>>

\* get_summary_private up to the call of chat: split, truncate, join, format!,
\* and the two messages custom_gpt builds
get_summary_private(r) ==
    /\ pc[r] = "get_summary_private"
    /\ Call(r, "get_summary_private")
    /\ LET split == split_ascii_whitespace(text[r])
           kept  == truncate(split, MaxTokens)
           body  == join(kept, Space)
       IN  /\ feed_texts' = [feed_texts EXCEPT ![r] = kept]
           /\ news_body' = [news_body EXCEPT ![r] = body]
           /\ message_obj' =
                 [message_obj EXCEPT ![r] = messages_of(SysPrompt, user_prompt_of(body))]
    /\ Goto(r, "chat")
    /\ UNCHANGED <<url, fails, tab, pdf, idx, texts, text,
                   writer, response, env, dotenvFile>>

\* dotenv().ok(); let api_token = env::var("OPENAI_API_TOKEN")?;
\* dotenv sets the variables of .env that the environment does not hold yet
chat_api_token(r) ==
    /\ pc[r] = "chat"
    /\ Call(r, "env::var")
    /\ env' = (env \/ dotenvFile)
    /\ IF env'
       THEN /\ Goto(r, "send")
            /\ UNCHANGED <<fails, response>>
       ELSE SummaryErr(r, "credential")
    /\ UNCHANGED <<url, tab, pdf, idx, texts, text, feed_texts,
                   news_body, message_obj, writer, dotenvFile>>

\* serde_json::to_vec(&params)?  and  Request::new(&uri)...send(&mut writer)?
chat_send(r) ==
    /\ pc[r] = "send"
    /\ Call(r, "send")
    /\ \/ /\ \E b \in ProviderBodies : writer' = [writer EXCEPT ![r] = b]
          /\ Goto(r, "from_slice")
          /\ UNCHANGED <<fails, response>>
       \/ /\ \E mode \in {"serialize", "transport"} : SummaryErr(r, mode)
          /\ UNCHANGED writer
    /\ UNCHANGED <<url, tab, pdf, idx, texts, text, feed_texts,
                   news_body, message_obj, env, dotenvFile>>

\* let res = serde_json::from_slice::<ChatResponse>(&writer)?;
chat_from_slice(r) ==
    /\ pc[r] = "from_slice"
    /\ Call(r, "from_slice")
    /\ IF writer[r].json
       THEN /\ Goto(r, "choices")
            /\ UNCHANGED <<fails, response>>
       ELSE SummaryErr(r, "parse")
    /\ UNCHANGED <<url, tab, pdf, idx, texts, text, feed_texts,
                   news_body, message_obj, writer, env, dotenvFile>>

\* res.choices[0] ...; Ok((content, finish_reason)) => Some(res) => body(summary)
chat_first_choice(r) ==
    /\ pc[r] = "choices"
    /\ Call(r, "choices[0]")
    /\ IF Len(writer[r].choices) = 0
       THEN /\ Failure(r, "choices")            \* index out of bounds panics
            /\ Panic(r)
       ELSE /\ Respond(r, writer[r].choices[1])
            /\ UNCHANGED fails
    /\ UNCHANGED <<url, tab, pdf, idx, texts, text, feed_texts,
                   news_body, message_obj, writer, env, dotenvFile>>

(***************************************************************************)
(* The service: two concurrent runs of handle_post.                        *)
(***************************************************************************)
Init ==
    /\ pc = [r \in Requests |-> "idle"]
    /\ url = [r \in Requests |-> NoUrl]
    /\ trace = [r \in Requests |-> <<>>]
    /\ fails = [r \in Requests |-> {}]
    /\ tab = [r \in Requests |-> "none"]
    /\ pdf = [r \in Requests |-> NoDoc]
    /\ idx = [r \in Requests |-> 0]
    /\ texts = [r \in Requests |-> <<>>]
    /\ text = [r \in Requests |-> <<>>]
    /\ feed_texts = [r \in Requests |-> <<>>]
    /\ news_body = [r \in Requests |-> <<>>]
    /\ message_obj = [r \in Requests |-> NoMessages]
    /\ writer = [r \in Requests |-> NoBody]
    /\ response = [r \in Requests |-> NoResponse]
    /\ env \in BOOLEAN
    /\ dotenvFile \in BOOLEAN

Next ==
    \E r \in Requests :
        \/ Receive(r)
        \/ handle_post_validate(r)
        \/ Browser_new(r)
        \/ new_tab(r)
        \/ navigate_to(r)
        \/ wait_until_navigated(r)
        \/ print_to_pdf(r)
        \/ bind_to_library(r)
        \/ load_pdf_from_byte_vec(r)
        \/ page_text(r)
        \/ collect_join(r)
        \/ get_summary_private(r)
        \/ chat_api_token(r)
        \/ chat_send(r)
        \/ chat_from_slice(r)
        \/ chat_first_choice(r)

Spec == Init /\ [][Next]_vars

(***************************************************************************)
(* The extractor and the preprocessor on every small document: one run of  *)
(* handle_post that has just loaded a printed document of 1..MaxPages      *)
(* pages, each page holding any text of at most MaxTextLen characters.     *)
(***************************************************************************)
TextsUpTo(n) == UNION {[1..k -> Chars] : k \in 0..n}

Docs == UNION {[1..n -> TextsUpTo(MaxTextLen)] : n \in 1..MaxPages}

LoadedTrace ==
    <<"Url::from_str", "Browser::new", "new_tab", "navigate_to",
      "wait_until_navigated", "print_to_pdf", "bind_to_library",
      "load_pdf_from_byte_vec">>

InitText ==
    /\ pc = [r \in Requests |-> IF r = "r1" THEN "pages" ELSE "idle"]
    /\ url = [r \in Requests |-> IF r = "r1" THEN UrlExample ELSE NoUrl]
    /\ trace = [r \in Requests |-> IF r = "r1" THEN LoadedTrace ELSE <<>>]
    /\ fails = [r \in Requests |-> {}]
    /\ tab = [r \in Requests |-> IF r = "r1" THEN "loaded" ELSE "none"]
    /\ \E doc \in Docs : pdf = [r \in Requests |-> IF r = "r1" THEN doc ELSE NoDoc]
    /\ idx = [r \in Requests |-> IF r = "r1" THEN 1 ELSE 0]
    /\ texts = [r \in Requests |-> <<>>]
    /\ text = [r \in Requests |-> <<>>]
    /\ feed_texts = [r \in Requests |-> <<>>]
    /\ news_body = [r \in Requests |-> <<>>]
    /\ message_obj = [r \in Requests |-> NoMessages]
    /\ writer = [r \in Requests |-> NoBody]
    /\ response = [r \in Requests |-> NoResponse]
    /\ env = TRUE
    /\ dotenvFile = FALSE

NextText ==
    \/ page_text("r1")
    \/ collect_join("r1")
    \/ get_summary_private("r1")

SpecText == InitText /\ [][NextText]_vars

(***************************************************************************)
(* Vocabulary of the properties.                                           *)
(***************************************************************************)
Called(r, name) == \E i \in 1..Len(trace[r]) : trace[r][i] = name

Ended == {"done", "panicked"}

RenderFailures  == {"browser", "tab", "navigate", "wait", "print"}
ExtractFailures == {"library", "load", "page"}
SummaryFailures == {"credential", "serialize", "transport", "parse", "choices"}

RenderCalls ==
    {"Browser::new", "new_tab", "navigate_to", "wait_until_navigated", "print_to_pdf"}
ExtractCalls ==
    {"bind_to_library", "load_pdf_from_byte_vec", "page.text", "join",
     "get_summary_private"}
SummaryCalls == {"env::var", "send", "from_slice", "choices[0]"}

Answered(r, b) == pc[r] = "done" /\ response[r] = [status |-> 200, body |-> b]

\* everything a run of handle_post owns
Own(r) ==
    <<pc[r], url[r], trace[r], fails[r], tab[r], pdf[r], idx[r], texts[r], text[r],
      feed_texts[r], news_body[r], message_obj[r], writer[r], response[r]>>

Min(a, b) == IF a < b THEN a ELSE b

\* the tokens of a text t, by position: a token starts at a non-whitespace
\* character that is first in t or follows a whitespace character
TokenStarts(t) ==
    {i \in 1..Len(t) :
        ~IsAsciiWhitespace(t[i]) /\ (i = 1 \/ IsAsciiWhitespace(t[i - 1]))}

TokenCount(t) == Cardinality(TokenStarts(t))

NthStart(t, n) ==
    CHOOSE i \in TokenStarts(t) : Cardinality({j \in TokenStarts(t) : j < i}) = n - 1

TokenEnd(t, i) ==
    CHOOSE j \in i..Len(t) :
        /\ \A m \in i..j : ~IsAsciiWhitespace(t[m])
        /\ (j = Len(t) \/ IsAsciiWhitespace(t[j + 1]))

TokenAt(t, n) == SubSeq(t, NthStart(t, n), TokenEnd(t, NthStart(t, n)))

\* where page i starts in the joined text of pages p
RECURSIVE PageOffset(_, _)
PageOffset(p, i) ==
    IF i = 1 THEN 0 ELSE PageOffset(p, i - 1) + Len(p[i - 1]) + 1

\* a URL string with a scheme: a word followed by ":"
HasScheme(s) == Len(s) >= 2 /\ IsWord(s[1]) /\ s[2] = ":"

\* scheme ":" "//" host, the authority form of an absolute URL
HasHost(s) ==
    /\ HasScheme(s)
    /\ Len(s) >= 5
    /\ s[3] = "/" /\ s[4] = "/"
    /\ IsWord(s[5])

WellFormedAbsolute(s) == HasHost(s) /\ \A i \in 1..Len(s) : s[i] # " "

\* the answer a run owes to its own stage outcomes
ExpectedBody(r) ==
    IF "url" \in fails[r] THEN ParseFailure
    ELSE IF fails[r] \cap (RenderFailures \ {"wait"}) # {} THEN TextFailure
    ELSE IF fails[r] \cap ExtractFailures # {} THEN TextFailure
    ELSE IF fails[r] \cap SummaryFailures # {} THEN SummaryFailure
    ELSE writer[r].choices[1]

DerivedFromOwnUrl(r) ==
    /\ pc[r] = "idle" => Own(r) = <<"idle", NoUrl, <<>>, {}, "none", NoDoc, 0, <<>>,
                                    <<>>, <<>>, <<>>, NoMessages, NoBody, NoResponse>>
    /\ pdf[r] # NoDoc =>
          /\ Called(r, "print_to_pdf")
          /\ pdf[r] \in {Web(url[r]), BlankDoc}
          /\ pdf[r] # Web(url[r]) => "wait" \in fails[r]
    /\ Len(texts[r]) <= Len(pdf[r])
    /\ texts[r] = SubSeq(pdf[r], 1, Len(texts[r]))
    /\ Called(r, "join") => text[r] = join(pdf[r], Space)
    /\ Called(r, "get_summary_private") =>
          /\ news_body[r] = join(truncate(split_ascii_whitespace(text[r]), MaxTokens), Space)
          /\ message_obj[r] = messages_of(SysPrompt, user_prompt_of(news_body[r]))
    /\ pc[r] = "done" => response[r] = [status |-> 200, body |-> ExpectedBody(r)]

\* the stage a call belongs to: 1 Validating, 2 Rendering, 3 Extracting+Truncating,
\* 4 Summarizing
Stage(c) ==
    IF c = "Url::from_str" THEN 1
    ELSE IF c \in RenderCalls THEN 2
    ELSE IF c \in ExtractCalls THEN 3
    ELSE 4

StagesInOrder(r) ==
    /\ \A i, j \in 1..Len(trace[r]) : i < j => Stage(trace[r][i]) <= Stage(trace[r][j])
    /\ \A i, j \in 1..Len(trace[r]) :
          (i < j /\ trace[r][i] = trace[r][j]) => trace[r][i] = "page.text"
    /\ Cardinality({i \in 1..Len(trace[r]) : trace[r][i] = "page.text"}) <= Len(pdf[r])
    /\ (\E c \in ExtractCalls : Called(r, c)) => fails[r] \cap RenderFailures = {}
    /\ (\E c \in SummaryCalls : Called(r, c)) =>
          fails[r] \cap (RenderFailures \cup ExtractFailures) = {}
    /\ (pc[r] \in Ended /\ fails[r] # {}) =>
          \E b \in {ParseFailure, TextFailure, SummaryFailure} : Answered(r, b)

(***************************************************************************)
(* C1: every ended run of handle_post has answered 200 OK with the         *)
(* provider's summary text or one of the three fixed failure strings; no   *)
(* stage outcome makes the handler abort without such a response.          *)
(***************************************************************************)
C1_AlwaysAnswers ==
    \A r \in Requests :
        pc[r] \in Ended =>
            \/ Answered(r, ParseFailure)
            \/ Answered(r, TextFailure)
            \/ Answered(r, SummaryFailure)
            \/ /\ writer[r].json
               /\ writer[r].choices # <<>>
               /\ Answered(r, writer[r].choices[1])

(***************************************************************************)
(* C2: when Url::from_str rejects the request's URL, the run makes no call *)
(* of the renderer, the extractor or the summarization client, and answers *)
(* "parse target url failure".                                             *)
(***************************************************************************)
C2_InvalidUrlShortCircuits ==
    \A r \in Requests :
        (pc[r] # "idle" /\ ~UrlFromStr(url[r]).ok) =>
            /\ \A i \in 1..Len(trace[r]) : trace[r][i] = "Url::from_str"
            /\ pc[r] \in {"validate", "done"}
            /\ pc[r] = "done" => Answered(r, ParseFailure)
            /\ tab[r] = "none" /\ pdf[r] = NoDoc /\ message_obj[r] = NoMessages

C2_Witness ==
    \E r \in Requests :
        /\ url[r] = UrlNotAUrl
        /\ Called(r, "Url::from_str")
        /\ Answered(r, ParseFailure)

(***************************************************************************)
(* C3: every render failure (browser start, tab open, navigation, waiting  *)
(* for navigation to complete, print) makes get_text_headless return Err   *)
(* at once: the run answers "failed to get text from webpage", never       *)
(* prints or extracts a page that did not finish navigating, and never     *)
(* calls the summarization client.                                         *)
(***************************************************************************)
C3_RenderFailuresSurface ==
    \A r \in Requests :
        (fails[r] \cap RenderFailures # {}) =>
            /\ Answered(r, TextFailure)
            /\ "wait" \in fails[r] => ~Called(r, "print_to_pdf")
            /\ \A c \in ExtractCalls \cup SummaryCalls : ~Called(r, c)

(***************************************************************************)
(* C4: every extraction failure (library binding, document load, text of   *)
(* any one page) aborts the extraction with an error value: the run        *)
(* answers "failed to get text from webpage" and never calls the           *)
(* summarization client.                                                   *)
(***************************************************************************)
C4_ExtractFailuresSurface ==
    \A r \in Requests :
        (fails[r] \cap ExtractFailures # {}) =>
            /\ Answered(r, TextFailure)
            /\ \A c \in SummaryCalls : ~Called(r, c)

(***************************************************************************)
(* C5: once the summarization client has run to its end, the answer is     *)
(* "failed to create summary" if the credential was absent, serialization  *)
(* or transport failed, the body did not parse or choices was empty, and   *)
(* is the content of choices[0] in every other case.                       *)
(***************************************************************************)
C5_SummaryNoneOrFirstChoice ==
    \A r \in Requests :
        (pc[r] \in Ended /\ Called(r, "env::var")) =>
            IF \/ fails[r] \cap SummaryFailures # {}
               \/ ~writer[r].json
               \/ writer[r].choices = <<>>
            THEN Answered(r, SummaryFailure)
            ELSE Answered(r, writer[r].choices[1])

(***************************************************************************)
(* C6: the bounded text of get_summary_private has min(k, MaxTokens)       *)
(* tokens, k the token count of the extracted text; they are the first     *)
(* tokens of the extracted text, in order, joined by single spaces; a      *)
(* text without tokens gives the empty string; and the user message        *)
(* handed to chat embeds the bounded text, not the extracted text.         *)
(***************************************************************************)
C6_BoundedText ==
    \A r \in Requests :
        Called(r, "get_summary_private") =>
            LET t == text[r]
                b == news_body[r]
                n == Min(TokenCount(t), MaxTokens)
            IN  /\ TokenCount(b) = n
                /\ Len(feed_texts[r]) = n
                /\ \A i \in 1..n : TokenAt(b, i) = TokenAt(t, i)
                /\ \A i \in 1..Len(b) :
                      IsAsciiWhitespace(b[i]) =>
                          /\ b[i] = " "
                          /\ 1 < i /\ i < Len(b)
                          /\ ~IsAsciiWhitespace(b[i + 1])
                /\ TokenCount(t) = 0 => b = <<>>
                /\ Len(message_obj[r]) = 2
                /\ message_obj[r][2].role = "user"
                /\ message_obj[r][2].content = <<PromptHead>> \o b \o <<PromptTail>>
                /\ t # b => message_obj[r][2].content # <<PromptHead>> \o t \o <<PromptTail>>

C6_Witness ==
    \E r \in Requests :
        /\ Called(r, "get_summary_private")
        /\ TokenCount(text[r]) > MaxTokens
        /\ TokenCount(news_body[r]) = MaxTokens
        /\ TokenAt(text[r], 1) # TokenAt(text[r], MaxTokens + 1)

(***************************************************************************)
(* C7: Url::from_str rejects every string without a scheme or without a    *)
(* host and accepts every well-formed absolute URL with both, so the       *)
(* renderer is only called with a string that has a scheme and a host.     *)
(***************************************************************************)
C7_ValidatorRequiresSchemeAndHost ==
    \A r \in Requests :
        /\ (Called(r, "Url::from_str") /\ ~(HasScheme(url[r]) /\ HasHost(url[r])))
              => Answered(r, ParseFailure)
        /\ (Called(r, "Url::from_str") /\ WellFormedAbsolute(url[r]))
              => ~Answered(r, ParseFailure)
        /\ Called(r, "Browser::new") => (HasScheme(url[r]) /\ HasHost(url[r]))

(***************************************************************************)
(* C8: the text get_text_headless returns for a loaded document is its     *)
(* pages' texts in page order, each page once, with one space between      *)
(* consecutive pages.                                                      *)
(***************************************************************************)
C8_PagesJoinedInOrder ==
    \A r \in Requests :
        Called(r, "join") =>
            LET p == pdf[r]
                t == text[r]
                n == Len(p)
            IN  /\ Len(texts[r]) = n
                /\ Len(t) = IF n = 0 THEN 0 ELSE PageOffset(p, n) + Len(p[n])
                /\ \A i \in 1..n :
                      LET off == PageOffset(p, i)
                      IN  /\ SubSeq(t, off + 1, off + Len(p[i])) = p[i]
                          /\ i < n => t[off + Len(p[i]) + 1] = " "

C8_Witness ==
    \E r \in Requests :
        /\ Called(r, "join")
        /\ Len(pdf[r]) = 2
        /\ pdf[r][1] # pdf[r][2]
        /\ pdf[r][1] # <<>> /\ pdf[r][2] # <<>>
        /\ text[r] = pdf[r][1] \o <<" ">> \o pdf[r][2]

C10_StagesSequential ==
    [][ \A r \in Requests :
           /\ StagesInOrder(r)'
           /\ pc[r] \in Ended => Own(r)' = Own(r)
      ]_vars

====
